---------------------------- MODULE Spec2Model ----------------------------
(***************************************************************************)
(* Fleet lifecycle of gastown: `gt start` and `gt shutdown`                *)
(* (internal/cmd/start.go).                                                *)
(*                                                                         *)
(* Strings that the code takes apart are kept as what strings.Split(s,"-") *)
(* returns: a non-empty sequence of hyphen-free words.  "gt-my-rig-crew-x" *)
(* is <<"gt","my","rig","crew","x">>.  Joining with "-" and splitting on   *)
(* "-" are inverse on this form, so HasPrefix, Contains and Split are      *)
(* computed on it exactly as on the text.                                  *)
(***************************************************************************)
EXTENDS Integers, Sequences, FiniteSets, TLC

VARIABLES
    flags,                \* the shutdown* flag variables (start.go:21-28)
    townRoot,             \* TRUE iff workspace.FindFromCwd found a town root
    live,                 \* tmux: the set of live session names
    rigs,                 \* disk: the rigs, each with its polecats
    worktrees,            \* disk: <<rig, polecat>> whose worktree exists
    branches,             \* disk: <<rig, polecat>> whose polecat/<name> branch exists
    pc,                   \* position of the running command
    sessions,             \* runShutdown: result of ListSessions
    toStop,               \* runShutdown: sessions selected for stopping
    preserved,            \* runShutdown: sessions listed as preserved
    response,             \* runShutdown: the line read from stdin
    idx,                  \* loop index over gtSessions
    remaining,            \* runGracefulShutdown: countdown
    stopped,              \* killSessionsInOrder: successes
    rigIdx,               \* cleanupPolecats: index of the rig in hand
    polecats,             \* cleanupPolecats: polecatMgr.List() of the rig in hand
    polIdx,               \* cleanupPolecats: index into polecats
    totalCleaned,
    totalSkipped,
    uncommittedPolecats,
    trace,                \* the calls made on tmux/git/stdout, in order
    beads,                \* the bead store: id -> status and assignee
    tracked,              \* the beads a convoy tracks
    sling,                \* gt sling: the caller, the arguments and the flags
    result,               \* gt sling: the slingResult being filled in
    json                  \* gt sling: what --json printed

vars == <<flags, townRoot, live, rigs, worktrees, branches, pc, sessions,
          toStop, preserved, response, idx, remaining, stopped, rigIdx,
          polecats, polIdx, totalCleaned, totalSkipped, uncommittedPolecats,
          trace, beads, tracked, sling, result, json>>

envVars == <<live, rigs, worktrees, branches>>
shutdownLocals == <<sessions, toStop, preserved, response, idx, remaining, stopped>>
cleanupLocals == <<rigIdx, polecats, polIdx, totalCleaned, totalSkipped,
                   uncommittedPolecats>>
slingVars == <<beads, tracked, sling, result, json>>

---------------------------------------------------------------------------
(* Bounds *)

MaxSessions == 3      \* longest session list handed to categorizeSessions
MaxRigs == 2          \* rigs discovered by a reclamation pass
MaxPolecats == 2      \* polecats on disk, all rigs together
MaxStop == 4          \* longest list handed to runGracefulShutdown/runImmediateShutdown
MaxWait == 6          \* largest --wait tried, in seconds
MaxLive == 4          \* most tmux sessions alive at once in the whole-command runs
MaxCountdown == 12    \* longest --wait tried in the runs of the countdown alone

---------------------------------------------------------------------------
(* Sequences *)

Range(s) == {s[k] : k \in 1..Len(s)}

NoDup(s) == \A a, b \in 1..Len(s) : s[a] = s[b] => a = b

\* All sequences over S without repetition, of length at most n.
RECURSIVE DistinctSeqs(_, _)
DistinctSeqs(S, n) ==
    IF n = 0 THEN {<<>>}
    ELSE LET shorter == DistinctSeqs(S, n - 1)
         IN  shorter \cup
             UNION {{Append(s, x) : x \in S \ Range(s)} : s \in shorter}

---------------------------------------------------------------------------
(* Session names *)

MayorSessionName == <<"gt", "mayor">>
DeaconSessionName == <<"gt", "deacon">>

\* The name of the session of an agent (kind, rig, name); rig and name are
\* themselves hyphen-split, a rig called my-rig being <<"my","rig">>.
SessionNameOf(a) ==
    CASE a.kind = "mayor"    -> MayorSessionName
      [] a.kind = "deacon"   -> DeaconSessionName
      [] a.kind = "witness"  -> <<"gt">> \o a.rig \o <<"witness">>
      [] a.kind = "refinery" -> <<"gt">> \o a.rig \o <<"refinery">>
      [] a.kind = "crew"     -> <<"gt">> \o a.rig \o <<"crew">> \o a.name
      [] a.kind = "polecat"  -> <<"gt">> \o a.rig \o a.name
      [] OTHER               -> a.name          \* not a Gas Town session

\* Variant of HasPrefixGt with a fault: the prefix is not looked at.
HasPrefixGt_NotTested(sess) == TRUE

\* strings.HasPrefix(sess, "gt-")
HasPrefixGt(sess) == Len(sess) >= 2 /\ sess[1] = "gt"

\* strings.Contains(sess, "-crew-")
ContainsCrew(sess) == \E k \in 2..(Len(sess) - 1) : sess[k] = "crew"

DefaultFlags ==
    [graceful |-> FALSE, wait |-> 30, all |-> FALSE, yes |-> FALSE,
     polecatsOnly |-> FALSE, nuclear |-> FALSE]

---------------------------------------------------------------------------
(* categorizeSessions *)

isCrew(sess) == ContainsCrew(sess)

isPolecat(sess) ==
    /\ ~isCrew(sess)
    /\ sess # MayorSessionName
    /\ sess # DeaconSessionName
    /\ Len(sess) >= 3
    /\ sess[3] \notin {"witness", "refinery", "crew"}

\* Variant of StopDecision with a fault: the default policy stops crew too.
StopDecision_CrewNotPreserved(sess, f) ==
    IF f.polecatsOnly THEN isPolecat(sess) ELSE TRUE

\* The decision taken for one fleet session: TRUE to stop, FALSE to preserve.
StopDecision(sess, f) ==
    IF f.polecatsOnly THEN isPolecat(sess)
    ELSE IF f.all THEN TRUE
    ELSE ~isCrew(sess)

RECURSIVE CategorizeFrom(_, _, _, _)
CategorizeFrom(ss, k, f, acc) ==
    IF k > Len(ss) THEN acc
    ELSE IF ~HasPrefixGt(ss[k]) THEN CategorizeFrom(ss, k + 1, f, acc)
    ELSE IF StopDecision(ss[k], f)
         THEN CategorizeFrom(ss, k + 1, f,
                  [acc EXCEPT !.toStop = Append(@, ss[k])])
         ELSE CategorizeFrom(ss, k + 1, f,
                  [acc EXCEPT !.preserved = Append(@, ss[k])])

categorizeSessions(ss, f) ==
    CategorizeFrom(ss, 1, f, [toStop |-> <<>>, preserved |-> <<>>])

---------------------------------------------------------------------------
(* The calls the command makes, recorded in order *)

Ev(op, arg, res) == [op |-> op, arg |-> arg, res |-> res]

Log(evs) == trace' = trace \o evs

\* inList of killSessionsInOrder
inList(sess, ss) == \E k \in 1..Len(ss) : ss[k] = sess

---------------------------------------------------------------------------
(* runGracefulShutdown, phases 1 to 3 *)

\* Phase 1: t.SendKeysRaw(sess, "Escape") for each session; errors dropped.
Interrupt ==
    /\ pc = "phase1"
    /\ idx <= Len(toStop)
    /\ Log(<<Ev("interrupt", toStop[idx], "sent")>>)
    /\ IF idx < Len(toStop)
       THEN idx' = idx + 1 /\ pc' = pc
       ELSE idx' = 1 /\ pc' = "phase2"
    /\ UNCHANGED <<flags, townRoot, envVars, sessions, toStop, preserved,
                   response, remaining, stopped, cleanupLocals>>
    /\ UNCHANGED slingVars

\* Phase 2: 500 ms stagger, then t.SendKeys(sess, shutdownMsg); errors dropped.
\* After the last one the countdown starts from shutdownWait.
Notice ==
    /\ pc = "phase2"
    /\ idx <= Len(toStop)
    /\ Log(<<Ev("stagger", toStop[idx], "500ms"),
             Ev("notice", toStop[idx], "sent")>>)
    /\ IF idx < Len(toStop)
       THEN idx' = idx + 1 /\ pc' = pc /\ UNCHANGED remaining
       ELSE idx' = 1 /\ pc' = "phase3" /\ remaining' = flags.wait
    /\ UNCHANGED <<flags, townRoot, envVars, sessions, toStop, preserved,
                   response, stopped, cleanupLocals>>
    /\ UNCHANGED slingVars

\* Variant of Countdown with a fault: the last turn sleeps five seconds too.
Countdown_NoRemainder ==
    /\ pc = "phase3"
    /\ remaining > 0
    /\ Log(<<Ev("sleep", 5, "s")>>)
    /\ remaining' = remaining - 5
    /\ UNCHANGED <<flags, townRoot, envVars, pc, sessions, toStop, preserved,
                   response, idx, stopped, cleanupLocals>>
    /\ UNCHANGED slingVars

\* Phase 3: one turn of the countdown loop.
Countdown ==
    /\ pc = "phase3"
    /\ remaining > 0
    /\ LET sleepTime == IF remaining < 5 THEN remaining ELSE 5
       IN  Log(<<Ev("sleep", sleepTime, "s")>>)
    /\ remaining' = remaining - 5
    /\ UNCHANGED <<flags, townRoot, envVars, pc, sessions, toStop, preserved,
                   response, idx, stopped, cleanupLocals>>
    /\ UNCHANGED slingVars

\* Variant of WaitOver with a fault: phase 4 may begin while time remains.
WaitOver_Early ==
    /\ pc = "phase3"
    /\ pc' = "killDeacon"
    /\ UNCHANGED <<flags, townRoot, envVars, shutdownLocals, cleanupLocals, trace>>
    /\ UNCHANGED slingVars

\* The countdown is over: phase 4 begins.
WaitOver ==
    /\ pc = "phase3"
    /\ remaining <= 0
    /\ pc' = "killDeacon"
    /\ UNCHANGED <<flags, townRoot, envVars, shutdownLocals, cleanupLocals, trace>>
    /\ UNCHANGED slingVars

---------------------------------------------------------------------------
(* killSessionsInOrder *)

\* t.KillSession(sess): the outcomes tmux can give.  A session that is not
\* live cannot be killed; a live one is killed, or the call fails.
KillOutcomes(sess) == IF sess \in live THEN {TRUE, FALSE} ELSE {FALSE}

\* Variant of KillSession with a fault: a failed kill is counted too.
KillSession_CountsFailures(sess, ok) ==
    /\ Log(<<Ev("kill", sess, ok)>>)
    /\ live' = IF ok THEN live \ {sess} ELSE live
    /\ stopped' = stopped + 1

\* One t.KillSession(sess) call with outcome ok, and the count kept of it.
KillSession(sess, ok) ==
    /\ Log(<<Ev("kill", sess, ok)>>)
    /\ live' = IF ok THEN live \ {sess} ELSE live
    /\ stopped' = IF ok THEN stopped + 1 ELSE stopped

\* What follows killSessionsInOrder in both callers: cleanup if a town root
\* was found, then the closing line.
AfterKill == IF townRoot THEN "cleanup" ELSE "complete"

\* 1. Stop Deacon first
KillDeacon ==
    /\ pc = "killDeacon"
    /\ IF inList(DeaconSessionName, toStop)
       THEN \E ok \in KillOutcomes(DeaconSessionName) :
                KillSession(DeaconSessionName, ok)
       ELSE UNCHANGED <<trace, live, stopped>>
    /\ pc' = "killOthers"
    /\ idx' = 1
    /\ UNCHANGED <<flags, townRoot, rigs, worktrees, branches, sessions,
                   toStop, preserved, response, remaining, cleanupLocals>>
    /\ UNCHANGED slingVars

\* Variant of KillOther with a fault: the loop passes over the Mayor only.
KillOther_OnlyMayorSkipped ==
    /\ pc = "killOthers"
    /\ idx <= Len(toStop)
    /\ IF toStop[idx] = MayorSessionName
       THEN UNCHANGED <<trace, live, stopped>>
       ELSE \E ok \in {TRUE, FALSE} : KillSession(toStop[idx], ok)
    /\ idx' = idx + 1
    /\ UNCHANGED <<flags, townRoot, rigs, worktrees, branches, pc, sessions,
                   toStop, preserved, response, remaining, cleanupLocals>>
    /\ UNCHANGED slingVars

\* 2. Stop others (except Mayor): one turn of the loop
KillOther ==
    /\ pc = "killOthers"
    /\ idx <= Len(toStop)
    /\ IF toStop[idx] = DeaconSessionName \/ toStop[idx] = MayorSessionName
       THEN UNCHANGED <<trace, live, stopped>>
       ELSE \E ok \in KillOutcomes(toStop[idx]) : KillSession(toStop[idx], ok)
    /\ idx' = idx + 1
    /\ UNCHANGED <<flags, townRoot, rigs, worktrees, branches, pc, sessions,
                   toStop, preserved, response, remaining, cleanupLocals>>
    /\ UNCHANGED slingVars

\* 3. Stop Mayor last, and return the count
KillMayor ==
    /\ pc = "killOthers"
    /\ idx > Len(toStop)
    /\ IF inList(MayorSessionName, toStop)
       THEN \E ok \in KillOutcomes(MayorSessionName) :
                KillSession(MayorSessionName, ok)
       ELSE UNCHANGED <<trace, live, stopped>>
    /\ pc' = AfterKill
    /\ UNCHANGED <<flags, townRoot, rigs, worktrees, branches, sessions,
                   toStop, preserved, response, idx, remaining, cleanupLocals>>
    /\ UNCHANGED slingVars

---------------------------------------------------------------------------
(* cleanupPolecats *)

\* What pGit.CheckUncommittedWork() can report of a worktree.
CheckResults == {"clean", "dirty", "err"}

\* polecatMgr.List(): the polecats of rig r whose worktree is on disk.
ListPolecats(r) ==
    SelectSeq(r.polecats, LAMBDA p : <<r.name, p.name>> \in worktrees)

\* Variant of UncommittedEntry with a fault: the change summary is left out.
UncommittedEntry_NoSummary(r, p) == <<r.name, "/", p.name>>

\* fmt.Sprintf("%s/%s (%s)", r.Name, p.Name, status.String())
UncommittedEntry(r, p) == <<r.name, "/", p.name, " (", p.summary, ")">>

\* config.LoadRigsConfig and rigMgr.DiscoverRigs: either may fail, and then
\* cleanupPolecats prints why and returns.
CleanupLoad ==
    /\ pc = "cleanup"
    /\ \E outcome \in {"ok", "no rigs config", "no rigs"} :
         IF outcome = "ok"
         THEN /\ pc' = "rig"
              /\ rigIdx' = 1
              /\ totalCleaned' = 0
              /\ totalSkipped' = 0
              /\ uncommittedPolecats' = <<>>
              /\ UNCHANGED <<trace, polecats, polIdx>>
         ELSE /\ pc' = "complete"
              /\ Log(<<Ev("say", outcome, "cleanup not run")>>)
              /\ UNCHANGED cleanupLocals
    /\ UNCHANGED <<flags, townRoot, envVars, shutdownLocals>>
    /\ UNCHANGED slingVars

\* for _, r := range rigs: polecatMgr.List(), a failure skipping the rig.
CleanupRig ==
    /\ pc = "rig"
    /\ rigIdx <= Len(rigs)
    /\ LET r == rigs[rigIdx]
           listed == ListPolecats(r)
       IN  IF r.listOk /\ Len(listed) > 0
           THEN /\ polecats' = listed
                /\ polIdx' = 1
                /\ pc' = "polecat"
                /\ UNCHANGED rigIdx
           ELSE /\ rigIdx' = rigIdx + 1
                /\ UNCHANGED <<polecats, polIdx, pc>>
    /\ UNCHANGED <<flags, townRoot, envVars, shutdownLocals, totalCleaned,
                   totalSkipped, uncommittedPolecats, trace>>
    /\ UNCHANGED slingVars

\* The index and position after the polecat in hand.
NextPolecat ==
    IF polIdx < Len(polecats)
    THEN polIdx' = polIdx + 1 /\ UNCHANGED <<pc, rigIdx>>
    ELSE polIdx' = 1 /\ pc' = "rig" /\ rigIdx' = rigIdx + 1

\* Variant of SkipPolecat with a fault: the skip is not counted.
SkipPolecat_NotCounted(evs) ==
    /\ Log(evs)
    /\ UNCHANGED <<worktrees, branches, totalCleaned, totalSkipped>>

\* The worker is passed over: counted as skipped, worktree and branch kept.
SkipPolecat(evs) ==
    /\ Log(evs)
    /\ totalSkipped' = totalSkipped + 1
    /\ UNCHANGED <<worktrees, branches, totalCleaned>>

\* Variant of RemovePolecat with a fault: the error of RemoveWithOptions is
\* dropped, and the worker reported as cleaned whatever happened.
RemovePolecat_ErrorDropped(r, p, evs) ==
    LET id == <<r.name, p.name>>
    IN  \E removed \in BOOLEAN :
        \E deleted \in (IF id \in branches THEN BOOLEAN ELSE {FALSE}) :
          /\ Log(evs \o <<Ev("remove", id, removed),
                          Ev("deleteBranch", id, deleted),
                          Ev("print", id, "cleaned up")>>)
          /\ worktrees' = IF removed THEN worktrees \ {id} ELSE worktrees
          /\ branches' = IF deleted THEN branches \ {id} ELSE branches
          /\ totalCleaned' = totalCleaned + 1
          /\ UNCHANGED <<totalSkipped, uncommittedPolecats>>

\* Variant of RemovePolecat with a fault: the error of DeleteBranch is not
\* dropped, and the worker whose branch stays is counted as skipped.
RemovePolecat_BranchErrorCounts(r, p, evs) ==
    LET id == <<r.name, p.name>>
    IN  \E removed \in BOOLEAN :
          IF ~removed
          THEN /\ SkipPolecat(evs \o <<Ev("remove", id, FALSE),
                                       Ev("print", id, "cleanup failed")>>)
               /\ UNCHANGED uncommittedPolecats
          ELSE \E deleted \in (IF id \in branches THEN BOOLEAN ELSE {FALSE}) :
               /\ worktrees' = worktrees \ {id}
               /\ branches' = IF deleted THEN branches \ {id} ELSE branches
               /\ UNCHANGED uncommittedPolecats
               /\ IF deleted
                  THEN /\ Log(evs \o <<Ev("remove", id, TRUE),
                                       Ev("deleteBranch", id, TRUE),
                                       Ev("print", id, "cleaned up")>>)
                       /\ totalCleaned' = totalCleaned + 1
                       /\ UNCHANGED totalSkipped
                  ELSE /\ Log(evs \o <<Ev("remove", id, TRUE),
                                       Ev("deleteBranch", id, FALSE),
                                       Ev("print", id, "cleanup failed")>>)
                       /\ totalSkipped' = totalSkipped + 1
                       /\ UNCHANGED totalCleaned

\* polecatMgr.RemoveWithOptions(p.Name, true, shutdownNuclear), then
\* mayorGit.DeleteBranch("polecat/<name>", true) with its error dropped.
RemovePolecat(r, p, evs) ==
    LET id == <<r.name, p.name>>
    IN  \E removed \in BOOLEAN :
          IF ~removed
          THEN /\ SkipPolecat(evs \o <<Ev("remove", id, FALSE),
                                       Ev("print", id, "cleanup failed")>>)
               /\ UNCHANGED uncommittedPolecats
          ELSE \E deleted \in (IF id \in branches THEN BOOLEAN ELSE {FALSE}) :
               /\ Log(evs \o <<Ev("remove", id, TRUE),
                               Ev("deleteBranch", id, deleted),
                               Ev("print", id, "cleaned up")>>)
               /\ worktrees' = worktrees \ {id}
               /\ branches' = IF deleted THEN branches \ {id} ELSE branches
               /\ totalCleaned' = totalCleaned + 1
               /\ UNCHANGED <<totalSkipped, uncommittedPolecats>>

\* Variant of SkipUnchecked with a fault: a failed check never skips.
SkipUnchecked_Never == FALSE

\* if !shutdownNuclear, on a check that failed (start.go:382)
SkipUnchecked == ~flags.nuclear

\* Variant of SkipUncommitted with a fault: uncommitted work always skips.
SkipUncommitted_Always == TRUE

\* if !shutdownNuclear, on uncommitted work (start.go:390)
SkipUncommitted == ~flags.nuclear

\* for _, p := range polecats: one turn of the loop.
CleanupPolecat ==
    /\ pc = "polecat"
    /\ polIdx <= Len(polecats)
    /\ LET r == rigs[rigIdx]
           p == polecats[polIdx]
           id == <<r.name, p.name>>
           checked == <<Ev("check", id, p.check)>>
       IN  CASE p.check = "err" /\ SkipUnchecked ->
                  /\ SkipPolecat(checked \o
                        <<Ev("print", id, "could not check status, skipping")>>)
                  /\ UNCHANGED uncommittedPolecats
             [] p.check = "dirty" /\ SkipUncommitted ->
                  /\ SkipPolecat(checked)
                  /\ uncommittedPolecats' =
                        Append(uncommittedPolecats, UncommittedEntry(r, p))
             [] p.check = "dirty" /\ ~SkipUncommitted ->
                  RemovePolecat(r, p, checked \o <<Ev("warn", id, p.summary)>>)
             [] OTHER ->
                  RemovePolecat(r, p, checked)
    /\ NextPolecat
    /\ UNCHANGED <<flags, townRoot, live, rigs, shutdownLocals, polecats>>
    /\ UNCHANGED slingVars

\* Summary
CleanupSummary ==
    /\ pc = "rig"
    /\ rigIdx > Len(rigs)
    /\ Log((IF Len(uncommittedPolecats) > 0
            THEN <<Ev("list", "uncommitted", uncommittedPolecats)>>
            ELSE <<>>)
           \o
           (IF totalCleaned > 0 \/ totalSkipped > 0
            THEN <<Ev("totals", totalCleaned, totalSkipped)>>
            ELSE <<Ev("say", "none", "No polecats to clean up")>>))
    /\ pc' = "complete"
    /\ UNCHANGED <<flags, townRoot, envVars, shutdownLocals, cleanupLocals>>
    /\ UNCHANGED slingVars

\* The closing line of runGracefulShutdown and runImmediateShutdown.
Complete ==
    /\ pc = "complete"
    /\ Log(<<Ev("complete", stopped, "sessions stopped")>>)
    /\ pc' = "done"
    /\ UNCHANGED <<flags, townRoot, envVars, shutdownLocals, cleanupLocals>>
    /\ UNCHANGED slingVars

---------------------------------------------------------------------------
(* runShutdown *)

\* A line of text is the sequence of its characters.
ToLowerChar(c) ==
    CASE c = "Y" -> "y" [] c = "E" -> "e" [] c = "S" -> "s"
      [] c = "N" -> "n" [] c = "O" -> "o" [] OTHER -> c

\* strings.ToLower
ToLower(str) == [k \in 1..Len(str) |-> ToLowerChar(str[k])]

IsSpace(c) == c \in {" ", "\t", "\n", "\r"}

\* strings.TrimSpace
RECURSIVE TrimLeft(_)
TrimLeft(str) ==
    IF Len(str) > 0 /\ IsSpace(str[1]) THEN TrimLeft(Tail(str)) ELSE str

RECURSIVE TrimRight(_)
TrimRight(str) ==
    IF Len(str) > 0 /\ IsSpace(str[Len(str)])
    THEN TrimRight(SubSeq(str, 1, Len(str) - 1)) ELSE str

TrimSpace(str) == TrimRight(TrimLeft(str))

\* reader.ReadString('\n'): what stdin holds up to and with its first
\* newline, or all of it when it ends without one (the error is dropped).
ReadString(stdin) ==
    IF \E k \in 1..Len(stdin) : stdin[k] = "\n"
    THEN SubSeq(stdin, 1,
                CHOOSE k \in 1..Len(stdin) :
                    stdin[k] = "\n" /\ \A m \in 1..(k - 1) : stdin[m] # "\n")
    ELSE stdin

\* Variant of Confirms with a fault: the line is not trimmed.
Confirms_NoTrim(resp) ==
    LET r == ToLower(resp)
    IN  r = <<"y">> \/ r = <<"y", "e", "s">>

\* response != "y" && response != "yes", negated
Confirms(resp) ==
    LET r == TrimSpace(ToLower(resp))
    IN  r = <<"y">> \/ r = <<"y", "e", "s">>

\* if shutdownGraceful { runGracefulShutdown } else { runImmediateShutdown }
Proceed == IF flags.graceful THEN "phase1" ELSE "killDeacon"

\* t.ListSessions(): the live sessions in the order tmux gives them, or an
\* error.  The flags and the town root are those of this invocation.
RunShutdown(f, root) ==
    /\ pc = "idle"
    /\ flags' = f
    /\ townRoot' = root
    /\ \/ /\ \E ss \in DistinctSeqs(live, Cardinality(live)) :
               Len(ss) = Cardinality(live) /\ sessions' = ss
          /\ pc' = "categorize"
          /\ UNCHANGED trace
       \/ /\ Log(<<Ev("error", "listing sessions", "tmux")>>)
          /\ pc' = "done"
          /\ UNCHANGED sessions
    /\ UNCHANGED <<envVars, toStop, preserved, response, idx, remaining,
                   stopped, cleanupLocals>>
    /\ UNCHANGED slingVars

\* Variant of NothingToStop with a fault: an empty list is not noticed.
NothingToStop_Never(c) == FALSE

\* if len(toStop) == 0
NothingToStop(c) == Len(c.toStop) = 0

\* categorizeSessions, the "was not running" return, the two listings, and
\* the branch on --yes.
Categorize ==
    /\ pc = "categorize"
    /\ LET c == categorizeSessions(sessions, flags)
       IN  /\ toStop' = c.toStop
           /\ preserved' = c.preserved
           /\ IF NothingToStop(c)
              THEN /\ Log(<<Ev("say", "none", "Gas Town was not running")>>)
                   /\ pc' = "done"
              ELSE /\ Log(<<Ev("show", "Sessions to stop:", c.toStop)>>
                          \o (IF Len(c.preserved) > 0 /\ ~flags.all
                              THEN <<Ev("show", "Sessions preserved (crew):",
                                        c.preserved)>>
                              ELSE <<>>))
                   /\ pc' = IF flags.yes THEN Proceed ELSE "prompt"
    /\ idx' = 1
    /\ UNCHANGED <<flags, townRoot, envVars, sessions, response, remaining,
                   stopped, cleanupLocals>>
    /\ UNCHANGED slingVars

\* "Proceed with shutdown? [y/N] " and the read of one line.
Prompt(stdin) ==
    /\ pc = "prompt"
    /\ Log(<<Ev("say", "prompt", "Proceed with shutdown? [y/N] ")>>)
    /\ response' = ReadString(stdin)
    /\ pc' = "decide"
    /\ UNCHANGED <<flags, townRoot, envVars, sessions, toStop, preserved, idx,
                   remaining, stopped, cleanupLocals>>
    /\ UNCHANGED slingVars

\* The test of the response; the local is gone once it is taken.
Decide ==
    /\ pc = "decide"
    /\ IF Confirms(response)
       THEN /\ Log(<<Ev("confirm", "prompt", TRUE)>>)
            /\ pc' = Proceed
       ELSE /\ Log(<<Ev("say", "prompt", "Shutdown cancelled.")>>)
            /\ pc' = "done"
    /\ response' = <<>>
    /\ UNCHANGED <<flags, townRoot, envVars, sessions, toStop, preserved, idx,
                   remaining, stopped, cleanupLocals>>
    /\ UNCHANGED slingVars

---------------------------------------------------------------------------
(* runStart *)

\* workspace.FindFromCwdOrError()
RunStart(root) ==
    /\ pc = "idle"
    /\ Cardinality(live \cup {MayorSessionName, DeaconSessionName}) <= MaxLive
    /\ townRoot' = root
    /\ IF root
       THEN pc' = "startMayor" /\ UNCHANGED trace
       ELSE /\ pc' = "done"
            /\ Log(<<Ev("error", "start", "not in a Gas Town workspace")>>)
    /\ UNCHANGED <<flags, envVars, shutdownLocals, cleanupLocals>>
    /\ UNCHANGED slingVars

\* Variant of EnsureSession with a fault: HasSession is not asked.
EnsureSession_NotAsked(name, next) ==
    \E ok \in BOOLEAN :
         /\ Log(<<Ev("start", name, ok)>>)
         /\ live' = IF ok THEN live \cup {name} ELSE live
         /\ pc' = IF ok THEN next ELSE "done"

\* t.HasSession(name); start(name) only when it answers no.  A start that
\* fails ends the command with its error.
EnsureSession(name, next) ==
    IF name \in live
    THEN /\ Log(<<Ev("running", name, TRUE)>>)
         /\ pc' = next
         /\ UNCHANGED live
    ELSE \E ok \in BOOLEAN :
         /\ Log(<<Ev("start", name, ok)>>)
         /\ live' = IF ok THEN live \cup {name} ELSE live
         /\ pc' = IF ok THEN next ELSE "done"

\* Start Mayor first (so Deacon sees it as up)
StartMayor ==
    /\ pc = "startMayor"
    /\ EnsureSession(MayorSessionName, "startDeacon")
    /\ UNCHANGED <<flags, townRoot, rigs, worktrees, branches, shutdownLocals,
                   cleanupLocals>>
    /\ UNCHANGED slingVars

\* Start Deacon (health monitor)
StartDeacon ==
    /\ pc = "startDeacon"
    /\ EnsureSession(DeaconSessionName, "done")
    /\ UNCHANGED <<flags, townRoot, rigs, worktrees, branches, shutdownLocals,
                   cleanupLocals>>
    /\ UNCHANGED slingVars

---------------------------------------------------------------------------
(* The disk a reclamation pass can find *)

RigNames == <<"gastown", "beads", "wyvern", "citadel">>
PolecatNames == <<"Toast", "Nux", "Furiosa", "Capable", "Slit">>
Summaries == {"1 modified", "2 untracked"}     \* status.String() of a dirty worktree

PolecatStates ==
    {[check |-> "clean", summary |-> "clean"], [check |-> "err", summary |-> ""]}
    \cup {[check |-> "dirty", summary |-> s] : s \in Summaries}

MakeRig(n, ok, states) ==
    [name |-> RigNames[n], listOk |-> ok,
     polecats |-> [k \in 1..Len(states) |->
                     [name |-> PolecatNames[k], check |-> states[k].check,
                      summary |-> states[k].summary]]]

PolecatCount(rs) ==
    Cardinality({<<n, k>> \in (1..Len(rs)) \X (1..Len(PolecatNames)) :
                    k <= Len(rs[n].polecats)})

\* The n-th rig, holding at most budget polecats.  A rig whose listing fails
\* holds one clean polecat when the budget allows.
RigsAt(n, budget) ==
    {MakeRig(n, TRUE, st) :
        st \in UNION {[1..j -> PolecatStates] : j \in 0..budget}}
    \cup {MakeRig(n, FALSE,
                  IF budget > 0 THEN <<[check |-> "clean", summary |-> "clean"]>>
                  ELSE <<>>)}

\* All disks of at most n rigs and at most budget polecats.
RECURSIVE RigConfigs(_, _)
RigConfigs(n, budget) ==
    IF n = 0 THEN {<<>>}
    ELSE LET prev == RigConfigs(n - 1, budget)
         IN  prev \cup
             UNION {{Append(rs, r) : r \in RigsAt(n, budget - PolecatCount(rs))} :
                       rs \in {t \in prev : Len(t) = n - 1}}

AllPolecats(rs) ==
    {<<rs[n].name, rs[n].polecats[k].name>> :
        <<n, k>> \in {<<n, k>> \in (1..Len(rs)) \X (1..Len(PolecatNames)) :
                         k <= Len(rs[n].polecats)}}

---------------------------------------------------------------------------
(* gt sling: the dispatch of one bead *)

\* The workers a target can name, each with its session.
Workers ==
    {[id |-> "mayor/", kind |-> "mayor", polecat |-> <<>>,
      session |-> MayorSessionName],
     [id |-> "gastown/crew/joe", kind |-> "crew", polecat |-> <<>>,
      session |-> <<"gt", "gastown", "crew", "joe">>],
     [id |-> "gastown/polecats/Toast", kind |-> "polecat",
      polecat |-> <<"gastown", "Toast">>,
      session |-> <<"gt", "gastown", "Toast">>],
     [id |-> "gastown/polecats/Nux", kind |-> "polecat",
      polecat |-> <<"gastown", "Nux">>,
      session |-> <<"gt", "gastown", "Nux">>]}

WorkerOf(id) == CHOOSE w \in Workers : w.id = id

\* The worker is in the registry: a polecat is while its worktree is on disk.
Registered(w) == w.kind # "polecat" \/ w.polecat \in worktrees

\* The beads of the store, and one that a compound is rooted at.
BeadIDs == {"gt-abc123", "gt-wisp-xyz"}

\* The slingResult of a call that has filled nothing in.
ZeroResult ==
    [Action |-> "", BeadID |-> "", OriginalBeadID |-> "", Target |-> "",
     Formula |-> "", WispID |-> "", ConvoyID |-> "", SpawnedPolecat |-> FALSE,
     PolecatName |-> "", NudgeSent |-> FALSE]

\* The constants TestSlingActionConstants pins.
slingActionSlung == "slung"
slingActionDryRun == "dry_run"
slingActionSpawned == "spawned"

\* The fields of slingResult in order, each with its JSON key and whether the
\* key is left out for the zero value.
ResultTags ==
    <<[field |-> "Action", key |-> "action", bool |-> FALSE, omitempty |-> FALSE],
      [field |-> "BeadID", key |-> "bead_id", bool |-> FALSE, omitempty |-> FALSE],
      [field |-> "OriginalBeadID", key |-> "original_bead_id", bool |-> FALSE,
       omitempty |-> TRUE],
      [field |-> "Target", key |-> "target", bool |-> FALSE, omitempty |-> FALSE],
      [field |-> "Formula", key |-> "formula", bool |-> FALSE, omitempty |-> TRUE],
      [field |-> "WispID", key |-> "wisp_id", bool |-> FALSE, omitempty |-> TRUE],
      [field |-> "ConvoyID", key |-> "convoy_id", bool |-> FALSE, omitempty |-> TRUE],
      [field |-> "SpawnedPolecat", key |-> "spawned_polecat", bool |-> TRUE,
       omitempty |-> TRUE],
      [field |-> "PolecatName", key |-> "polecat_name", bool |-> FALSE,
       omitempty |-> TRUE],
      [field |-> "NudgeSent", key |-> "nudge_sent", bool |-> TRUE,
       omitempty |-> FALSE]>>

\* encoding/json's test for omitempty, on a string or a bool.
IsEmptyValue(tag, v) == IF tag.bool THEN v = FALSE ELSE v = ""

\* Variant of Marshal with a fault: every key is left out for the zero value.
Marshal_AllOmitEmpty(r) ==
    LET kept == {k \in 1..Len(ResultTags) :
                    ~IsEmptyValue(ResultTags[k], r[ResultTags[k].field])}
        tagOf(key) == CHOOSE k \in kept : ResultTags[k].key = key
    IN  [key \in {ResultTags[k].key : k \in kept} |->
            r[ResultTags[tagOf(key)].field]]

\* json.Marshal(result): the object as a function from the keys it holds.
Marshal(r) ==
    LET kept == {k \in 1..Len(ResultTags) :
                    \/ ~ResultTags[k].omitempty
                    \/ ~IsEmptyValue(ResultTags[k], r[ResultTags[k].field])}
        tagOf(key) == CHOOSE k \in kept : ResultTags[k].key = key
    IN  [key \in {ResultTags[k].key : k \in kept} |->
            r[ResultTags[tagOf(key)].field]]

\* No call of gt sling is under way.
SlingIdle ==
    /\ beads = [b \in BeadIDs |-> [status |-> "absent", assignee |-> ""]]
    /\ tracked = {}
    /\ sling = [actor |-> "", bead |-> "", target |-> "", force |-> FALSE,
                dryRun |-> FALSE, noConvoy |-> FALSE, formula |-> ""]
    /\ result = ZeroResult
    /\ json = <<>>

\* The call ends with a fatal error: one line, nothing more done.
Fail(err) ==
    /\ Log(<<Ev("fatal", err, sling.bead)>>)
    /\ pc' = "done"

\* Actor guard: a polecat may not sling.
SlingGuard ==
    /\ pc = "sling"
    /\ IF \E w \in Workers : w.id = sling.actor /\ w.kind = "polecat"
       THEN Fail("ActorNotAllowed") /\ UNCHANGED result
       ELSE /\ pc' = "resolve"
            /\ result' = [result EXCEPT !.BeadID = sling.bead]
            /\ UNCHANGED trace
    /\ UNCHANGED <<flags, townRoot, envVars, shutdownLocals, cleanupLocals,
                   beads, tracked, sling, json>>

\* The names a fresh polecat of the rig can be given.
FreshNames(rig) ==
    {w \in Workers : /\ w.kind = "polecat"
                     /\ w.polecat[1] = rig
                     /\ w.polecat \notin worktrees}

\* The Provisioner: a fresh polecat of the rig with worktree, branch and
\* session, or in a dry run only the word of it.
Provision(rig) ==
    IF sling.dryRun
    THEN /\ result' = [result EXCEPT !.Target = "gastown/polecats/<new>",
                                     !.SpawnedPolecat = TRUE]
         /\ pc' = "fetch"
         /\ UNCHANGED <<trace, live, worktrees, branches>>
    ELSE \E ok \in BOOLEAN :
         IF ok /\ FreshNames(rig) # {}
         THEN \E w \in FreshNames(rig) :
                 /\ worktrees' = worktrees \cup {w.polecat}
                 /\ branches' = branches \cup {w.polecat}
                 /\ live' = live \cup {w.session}
                 /\ result' = [result EXCEPT !.Target = w.id,
                                             !.SpawnedPolecat = TRUE,
                                             !.PolecatName = w.polecat[2]]
                 /\ Log(<<Ev("provision", w.id, TRUE)>>)
                 /\ pc' = "fetch"
         ELSE /\ Fail("WorkspaceUnavailable")
              /\ UNCHANGED <<result, live, worktrees, branches>>

\* Step 1: the target resolved, a dead polecat or a bare rig name provisioned.
SlingResolve ==
    /\ pc = "resolve"
    /\ CASE sling.target = "." ->
              /\ IF sling.actor = ""
                 THEN Fail("NotSelfResolvable") /\ UNCHANGED result
                 ELSE /\ result' = [result EXCEPT !.Target = sling.actor]
                      /\ pc' = "fetch"
                      /\ UNCHANGED trace
              /\ UNCHANGED <<live, worktrees, branches>>
         [] sling.target = "gastown" -> Provision("gastown")
         [] \E w \in Workers : w.id = sling.target /\ Registered(w) ->
              LET w == WorkerOf(sling.target)
              IN  IF w.kind = "polecat" /\ w.session \notin live
                  THEN Provision(w.polecat[1])
                  ELSE /\ result' = [result EXCEPT !.Target = w.id]
                       /\ pc' = "fetch"
                       /\ UNCHANGED <<trace, live, worktrees, branches>>
         [] OTHER ->
              /\ Fail("TargetNotFound")
              /\ UNCHANGED <<result, live, worktrees, branches>>
    /\ UNCHANGED <<flags, townRoot, rigs, shutdownLocals, cleanupLocals,
                   beads, tracked, sling, json>>

\* Step 2: the snapshot of the bead, and the guard against a second sling.
SlingFetch ==
    /\ pc = "fetch"
    /\ IF beads[sling.bead].status = "pinned" /\ ~sling.force
       THEN Fail("AlreadyPinned")
       ELSE pc' = "convoy" /\ UNCHANGED trace
    /\ UNCHANGED <<flags, townRoot, envVars, shutdownLocals, cleanupLocals,
                   slingVars>>

\* Step 3: the bead gets a convoy unless it has one; a failure only warns.
\* A dry run stops here and tells the rest.
SlingConvoy ==
    /\ pc = "convoy"
    /\ IF sling.dryRun
       THEN /\ result' = [result EXCEPT !.Action = slingActionDryRun]
            /\ pc' = "emit"
            /\ UNCHANGED <<tracked, trace>>
       ELSE /\ pc' = "formula"
            /\ IF sling.noConvoy
               THEN UNCHANGED <<tracked, result, trace>>
               ELSE IF sling.bead \in tracked
               THEN /\ result' = [result EXCEPT !.ConvoyID = "gt-convoy-456"]
                    /\ UNCHANGED <<tracked, trace>>
               ELSE \E ok \in BOOLEAN :
                    IF ok
                    THEN /\ tracked' = tracked \cup {sling.bead}
                         /\ result' = [result EXCEPT !.ConvoyID = "gt-convoy-456"]
                         /\ UNCHANGED trace
                    ELSE /\ Log(<<Ev("warning", "convoy", sling.bead)>>)
                         /\ UNCHANGED <<tracked, result>>
    /\ UNCHANGED <<flags, townRoot, envVars, shutdownLocals, cleanupLocals,
                   beads, sling, json>>

\* Step 4: the formula expanded on the bead; the compound takes its place.
SlingFormula ==
    /\ pc = "formula"
    /\ IF sling.formula = ""
       THEN pc' = "claim" /\ UNCHANGED <<beads, result, trace>>
       ELSE \E ok \in BOOLEAN :
            IF ok /\ beads[sling.bead].status # "absent"
            THEN /\ beads' = [beads EXCEPT !["gt-wisp-xyz"] =
                                 [status |-> "open", assignee |-> ""]]
                 /\ result' = [result EXCEPT !.BeadID = "gt-wisp-xyz",
                                             !.OriginalBeadID = sling.bead,
                                             !.Formula = sling.formula,
                                             !.WispID = "gt-wisp-xyz"]
                 /\ pc' = "claim"
                 /\ UNCHANGED trace
            ELSE Fail("FormulaFailed") /\ UNCHANGED <<beads, result>>
    /\ UNCHANGED <<flags, townRoot, envVars, shutdownLocals, cleanupLocals,
                   tracked, sling, json>>

\* Variant of SlingClaim with a fault: the worker is told before the claim.
SlingClaim_NudgeFirst ==
    /\ pc = "claim"
    /\ Log(<<Ev("nudge", result.BeadID, result.Target)>>)
    /\ result' = [result EXCEPT !.NudgeSent = TRUE]
    /\ pc' = "emit"
    /\ UNCHANGED <<flags, townRoot, envVars, shutdownLocals, cleanupLocals,
                   beads, tracked, sling, json>>

\* Step 5, the claim: status hooked, assignee the worker.  The store refuses
\* a bead it does not hold.
SlingClaim ==
    /\ pc = "claim"
    /\ \E ok \in BOOLEAN :
         IF ok /\ beads[result.BeadID].status # "absent"
         THEN /\ beads' = [beads EXCEPT ![result.BeadID] =
                              [status |-> "hooked", assignee |-> result.Target]]
              /\ Log(<<Ev("claim", result.BeadID, result.Target)>>)
              /\ result' = [result EXCEPT !.Action =
                               IF result.SpawnedPolecat THEN slingActionSpawned
                               ELSE slingActionSlung]
              /\ pc' = "nudge"
         ELSE Fail("ClaimFailed") /\ UNCHANGED <<beads, result>>
    /\ UNCHANGED <<flags, townRoot, envVars, shutdownLocals, cleanupLocals,
                   tracked, sling, json>>

\* Steps 6 and 7: what is written after the claim is best effort; the worker
\* is told to start if it has a live session, and a failure only warns.
SlingNudge ==
    /\ pc = "nudge"
    /\ IF WorkerOf(result.Target).session \in live
       THEN \E ok \in BOOLEAN :
              /\ Log(<<Ev("nudge", result.BeadID, result.Target)>>)
              /\ result' = [result EXCEPT !.NudgeSent = ok]
       ELSE UNCHANGED <<trace, result>>
    /\ pc' = "emit"
    /\ UNCHANGED <<flags, townRoot, envVars, shutdownLocals, cleanupLocals,
                   beads, tracked, sling, json>>

\* Step 8: the one result record.
SlingEmit ==
    /\ pc = "emit"
    /\ json' = Marshal(result)
    /\ pc' = "done"
    /\ UNCHANGED <<flags, townRoot, envVars, shutdownLocals, cleanupLocals,
                   trace, beads, tracked, sling, result>>

---------------------------------------------------------------------------
(* Specifications *)

\* The locals of a command that has not run yet.
FreshLocals ==
    /\ preserved = <<>> /\ response = <<>>
    /\ idx = 1 /\ remaining = 0 /\ stopped = 0
    /\ rigIdx = 1 /\ polecats = <<>> /\ polIdx = 1
    /\ totalCleaned = 0 /\ totalSkipped = 0 /\ uncommittedPolecats = <<>>
    /\ trace = <<>>

\* cleanupPolecats alone, on every disk within the bounds.
InitCleanup ==
    /\ FreshLocals
    /\ SlingIdle
    /\ sessions = <<>>
    /\ toStop = <<>>
    /\ pc = "cleanup"
    /\ \E n \in BOOLEAN : flags = [DefaultFlags EXCEPT !.nuclear = n]
    /\ townRoot = TRUE
    /\ live = {}
    /\ rigs \in RigConfigs(MaxRigs, MaxPolecats)
    /\ worktrees = AllPolecats(rigs)
    /\ branches = AllPolecats(rigs)

NextCleanup ==
    \/ CleanupLoad
    \/ CleanupRig
    \/ CleanupPolecat
    \/ CleanupSummary
    \/ Complete

SpecCleanup == InitCleanup /\ [][NextCleanup]_vars

---------------------------------------------------------------------------
(* categorizeSessions alone *)

Rigs == {<<"gastown">>, <<"my", "rig">>}

\* The agents whose sessions are categorized, and sessions of other tools.
AgentsOfRig(rig) ==
    {[kind |-> "witness", rig |-> rig, name |-> <<>>],
     [kind |-> "refinery", rig |-> rig, name |-> <<>>],
     [kind |-> "crew", rig |-> rig, name |-> <<"max">>],
     [kind |-> "polecat", rig |-> rig, name |-> <<"Toast">>],
     [kind |-> "polecat", rig |-> rig, name |-> <<"Nux", "2">>]}

Agents ==
    {[kind |-> "mayor", rig |-> <<>>, name |-> <<>>],
     [kind |-> "deacon", rig |-> <<>>, name |-> <<>>]}
    \cup UNION {AgentsOfRig(rig) : rig \in Rigs}
    \cup {[kind |-> "other", rig |-> <<>>, name |-> n] :
             n \in {<<"main">>, <<"gt">>, <<"dev", "crew", "max">>}}

SessionNames == {SessionNameOf(a) : a \in Agents}

\* The agent a session name of SessionNames belongs to.
AgentOf(sess) == CHOOSE a \in Agents : SessionNameOf(a) = sess

\* categorizeSessions on every list of distinct session names within the
\* bound, under every choice of --all and --polecats-only.
InitCategorize ==
    /\ FreshLocals
    /\ SlingIdle
    /\ toStop = <<>>
    /\ pc = "categorize"
    /\ sessions \in DistinctSeqs(SessionNames, MaxSessions)
    /\ \E a, po \in BOOLEAN :
          flags = [DefaultFlags EXCEPT !.all = a, !.polecatsOnly = po]
    /\ townRoot = FALSE
    /\ live = Range(sessions)
    /\ rigs = <<>>
    /\ worktrees = {}
    /\ branches = {}

NextCategorize == Categorize

SpecCategorize == InitCategorize /\ [][NextCategorize]_vars

---------------------------------------------------------------------------
(* runGracefulShutdown and runImmediateShutdown alone *)

\* The waits tried: none or less, shorter than one turn of the countdown,
\* one turn exactly, and the longest.
Waits == {-1, 0, 1, 5, MaxWait}

\* The sessions a shutdown may be handed.
StopNames ==
    {MayorSessionName, DeaconSessionName, <<"gt", "gastown", "witness">>,
     <<"gt", "gastown", "Toast">>, <<"gt", "gastown", "Nux">>}

\* A disk of one rig holding one polecat.
SmallDisks ==
    {<<MakeRig(1, TRUE, <<st>>)>> :
        st \in {[check |-> "clean", summary |-> "clean"],
                [check |-> "dirty", summary |-> "1 modified"]}}

\* Every non-empty list of distinct sessions within the bound, in every
\* order, immediate or graceful with every wait.
InitStop ==
    /\ FreshLocals
    /\ SlingIdle
    /\ sessions = <<>>
    /\ toStop \in DistinctSeqs(StopNames, MaxStop) \ {<<>>}
    /\ \E g \in BOOLEAN, w \in Waits :
          /\ g \/ w = DefaultFlags.wait \/ w = 0
          /\ flags = [DefaultFlags EXCEPT !.graceful = g,
                                          !.wait = IF g THEN w ELSE @]
    /\ pc = Proceed
    /\ townRoot \in BOOLEAN
    /\ live = Range(toStop)
    /\ rigs \in SmallDisks
    /\ townRoot \/ rigs[1].polecats[1].check = "clean"
    /\ worktrees = AllPolecats(rigs)
    /\ branches = AllPolecats(rigs)

NextStop ==
    \/ Interrupt
    \/ Notice
    \/ Countdown
    \/ WaitOver
    \/ KillDeacon
    \/ KillOther
    \/ KillMayor
    \/ CleanupLoad
    \/ CleanupRig
    \/ CleanupPolecat
    \/ CleanupSummary
    \/ Complete

SpecStop == InitStop /\ [][NextStop]_vars

---------------------------------------------------------------------------
(* The countdown of runGracefulShutdown, on longer waits *)

\* A graceful shutdown of one list or another with every wait from -1 to
\* MaxCountdown seconds.
InitCountdown ==
    /\ FreshLocals
    /\ SlingIdle
    /\ sessions = <<>>
    /\ toStop \in {<<<<"gt", "gastown", "Toast">>>>,
                   <<MayorSessionName, <<"gt", "gastown", "Toast">>,
                     DeaconSessionName>>}
    /\ \E w \in (-1)..MaxCountdown :
          flags = [DefaultFlags EXCEPT !.graceful = TRUE, !.wait = w]
    /\ pc = Proceed
    /\ townRoot = TRUE
    /\ live = Range(toStop)
    /\ rigs \in SmallDisks
    /\ worktrees = AllPolecats(rigs)
    /\ branches = AllPolecats(rigs)

\* The command is one thread that runs on until it returns.
SpecCountdown ==
    /\ InitCountdown
    /\ [][NextStop]_vars
    /\ WF_vars(NextStop)

---------------------------------------------------------------------------
(* runGracefulShutdown with the operator at the keyboard *)

\* Ctrl-C while the countdown sleeps.  runGracefulShutdown installs no
\* handler and time.Sleep takes no cancellation: the process is ended by the
\* signal, or, where a handler set elsewhere swallows it, sleeps on.
CtrlC ==
    /\ pc = "phase3"
    /\ remaining > 0
    /\ \A k \in 1..Len(trace) : trace[k].op # "sigint"
    /\ \E outcome \in {"process ended", "ignored"} :
          /\ Log(<<Ev("sigint", remaining, outcome)>>)
          /\ pc' = IF outcome = "process ended" THEN "done" ELSE pc
    /\ UNCHANGED <<flags, townRoot, envVars, shutdownLocals, cleanupLocals>>
    /\ UNCHANGED slingVars

InitCtrlC ==
    /\ InitStop
    /\ flags.graceful
    /\ flags.wait \in {1, MaxWait}

NextCtrlC ==
    \/ NextStop
    \/ CtrlC

SpecCtrlC == InitCtrlC /\ [][NextCtrlC]_vars

---------------------------------------------------------------------------
(* The commands, one after another *)

\* What stdin may hold when the prompt reads it.
StdinInputs ==
    {<<"y", "\n">>, <<" ", "Y", "E", "S", " ", "\r", "\n">>, <<"\t", "Y">>,
     <<>>, <<"\n">>, <<"N", "o", "\n">>, <<"y", "e", "\n">>,
     <<"y", " ", "e", "s", "\n">>, <<"\n", "y", "\n">>}

\* The command lines of gt shutdown: --wait is given only with --graceful.
CommandLines ==
    {f \in [graceful : BOOLEAN, wait : {MaxWait, DefaultFlags.wait},
            all : BOOLEAN, yes : BOOLEAN, polecatsOnly : BOOLEAN,
            nuclear : BOOLEAN] :
        f.graceful <=> f.wait # DefaultFlags.wait}

\* Sessions that come to life outside gt start: agents started lazily, and
\* sessions of other tools on the same tmux server.
SpawnNames ==
    {<<"gt", "gastown", "Toast">>, <<"gt", "gastown", "crew", "max">>, <<"main">>}

Spawn(sess) ==
    /\ pc = "idle"
    /\ sess \notin live
    /\ Cardinality(live) < MaxLive
    /\ live' = live \cup {sess}
    /\ UNCHANGED <<flags, townRoot, rigs, worktrees, branches, pc,
                   shutdownLocals, cleanupLocals, trace>>
    /\ UNCHANGED slingVars

\* The command has returned; the next one is a new process.
NextCommand ==
    /\ pc = "done"
    /\ pc' = "idle"
    /\ flags' = DefaultFlags
    /\ sessions' = <<>> /\ toStop' = <<>> /\ preserved' = <<>>
    /\ response' = <<>> /\ idx' = 1 /\ remaining' = 0 /\ stopped' = 0
    /\ rigIdx' = 1 /\ polecats' = <<>> /\ polIdx' = 1
    /\ totalCleaned' = 0 /\ totalSkipped' = 0 /\ uncommittedPolecats' = <<>>
    /\ trace' = <<>>
    /\ UNCHANGED <<townRoot, envVars>>
    /\ UNCHANGED slingVars

Init ==
    /\ FreshLocals
    /\ SlingIdle
    /\ sessions = <<>>
    /\ toStop = <<>>
    /\ pc = "idle"
    /\ flags = DefaultFlags
    /\ townRoot = FALSE
    /\ live = {}
    /\ rigs = <<MakeRig(1, TRUE, <<[check |-> "clean", summary |-> "clean"]>>)>>
    /\ worktrees = AllPolecats(rigs)
    /\ branches = AllPolecats(rigs)

Next ==
    \/ \E root \in BOOLEAN : RunStart(root)
    \/ StartMayor
    \/ StartDeacon
    \/ \E sess \in SpawnNames : Spawn(sess)
    \/ \E f \in CommandLines : RunShutdown(f, TRUE)
    \/ Categorize
    \/ \E stdin \in StdinInputs : Prompt(stdin)
    \/ Decide
    \/ NextStop
    \/ NextCommand

Spec == Init /\ [][Next]_vars

---------------------------------------------------------------------------
(* gt sling alone *)

\* The command lines of gt sling tried, each with its caller.
SlingCalls ==
    [actor : {"mayor/", "gastown/polecats/Toast", ""},
     bead : {"gt-abc123"},
     target : {".", "gastown", "gastown/polecats/Toast", "gastown/crew/joe",
               "nowhere"},
     force : BOOLEAN, dryRun : BOOLEAN, noConvoy : BOOLEAN,
     formula : {"", "mol-review"}]

\* The bead as the store may hold it when the call begins.
BeadStates ==
    {[status |-> "absent", assignee |-> ""],
     [status |-> "open", assignee |-> ""],
     [status |-> "hooked", assignee |-> "gastown/crew/joe"],
     [status |-> "pinned", assignee |-> "gastown/crew/joe"]}

\* One call of gt sling, on every store, registry and set of live sessions
\* tried.
InitSling ==
    /\ FreshLocals
    /\ sessions = <<>>
    /\ toStop = <<>>
    /\ pc = "sling"
    /\ flags = DefaultFlags
    /\ townRoot = TRUE
    /\ rigs = <<>>
    /\ worktrees \in SUBSET {<<"gastown", "Toast">>}
    /\ branches = worktrees
    /\ live \in SUBSET {MayorSessionName, <<"gt", "gastown", "crew", "joe">>,
                        <<"gt", "gastown", "Toast">>}
    /\ <<"gt", "gastown", "Toast">> \in live => <<"gastown", "Toast">> \in worktrees
    /\ \E b \in BeadStates :
          beads = [id \in BeadIDs |->
                      IF id = "gt-abc123" THEN b
                      ELSE [status |-> "absent", assignee |-> ""]]
    /\ tracked \in SUBSET {"gt-abc123"}
    /\ sling \in SlingCalls
    /\ result = ZeroResult
    /\ json = <<>>

NextSling ==
    \/ SlingGuard
    \/ SlingResolve
    \/ SlingFetch
    \/ SlingConvoy
    \/ SlingFormula
    \/ SlingClaim
    \/ SlingNudge
    \/ SlingEmit

SpecSling == InitSling /\ [][NextSling]_vars

\* The values a string field of slingResult takes in the tests, and none.
ResultRecords ==
    [Action : {slingActionSlung, slingActionDryRun, slingActionSpawned},
     BeadID : {"", "gt-abc123", "gt-wisp-xyz"},
     OriginalBeadID : {"", "gt-abc123"},
     Target : {"", "gastown/crew/joe", "mayor/"},
     Formula : {"", "mol-review"},
     WispID : {"", "gt-wisp-xyz"},
     ConvoyID : {"", "gt-convoy-456"},
     SpawnedPolecat : BOOLEAN,
     PolecatName : {"", "Toast"},
     NudgeSent : BOOLEAN]

\* json.Marshal on every such record.
InitMarshal ==
    /\ FreshLocals
    /\ beads = [b \in BeadIDs |-> [status |-> "absent", assignee |-> ""]]
    /\ tracked = {}
    /\ sling \in {s \in SlingCalls : s.actor = "mayor/" /\ s.target = "."
                                    /\ ~s.force /\ ~s.noConvoy /\ s.formula = ""}
    /\ result \in ResultRecords
    /\ json = <<>>
    /\ sessions = <<>>
    /\ toStop = <<>>
    /\ pc = "emit"
    /\ flags = DefaultFlags
    /\ townRoot = FALSE
    /\ rigs = <<>>
    /\ worktrees = {}
    /\ branches = {}
    /\ live = {}

NextMarshal == SlingEmit

SpecMarshal ==
    /\ InitMarshal
    /\ [][NextMarshal]_vars

---------------------------------------------------------------------------
(* Properties *)

\* The positions of the trace that hold a call of kind op.
At(op) == {k \in 1..Len(trace) : trace[k].op = op}

\* The polecat <<rig, name>> as the disk holds it.
PolecatRec(id) ==
    LET n == CHOOSE n \in 1..Len(rigs) : rigs[n].name = id[1]
        k == CHOOSE k \in 1..Len(rigs[n].polecats) : rigs[n].polecats[k].name = id[2]
    IN  rigs[n].polecats[k]

\* killSessionsInOrder has returned.
KillsDone == pc \in {"cleanup", "rig", "polecat", "complete", "done"}

\* C1: the kill of the Deacon session, when it is selected, is issued before
\* the kill of any other session, and the kill of the Mayor session, when it
\* is selected, after the kill of every other selected session, whatever the
\* order of the list, whatever the kill calls return, immediate or graceful.
C1_KillOrder ==
    LET kills == At("kill")
    IN  /\ \A a \in kills : trace[a].arg = DeaconSessionName =>
              \A b \in kills : a <= b
        /\ \A a \in kills : trace[a].arg = MayorSessionName =>
              \A b \in kills : b <= a
        /\ KillsDone =>
              \A s \in Range(toStop) : \E k \in kills : trace[k].arg = s

\* A graceful shutdown of four sessions found with the Mayor first and the
\* Deacon last has run to its end, one kill having failed.
C1_Witness ==
    /\ pc = "done"
    /\ flags.graceful
    /\ Len(toStop) = 4
    /\ toStop[1] = MayorSessionName
    /\ toStop[4] = DeaconSessionName
    /\ Cardinality(At("kill")) = 4
    /\ \E k \in At("kill") : ~trace[k].res

\* C2: without --nuclear, a worktree is removed and a branch deleted only for
\* a polecat whose uncommitted-work check succeeded and reported clean; one
\* with uncommitted changes, or whose check failed, keeps both.
C2_RemovedOnlyIfClean ==
    ~flags.nuclear =>
        /\ \A k \in At("remove") \cup At("deleteBranch") :
              /\ PolecatRec(trace[k].arg).check = "clean"
              /\ \E j \in At("check") :
                    /\ j < k
                    /\ trace[j].arg = trace[k].arg
                    /\ trace[j].res = "clean"
        /\ \A id \in AllPolecats(rigs) :
              PolecatRec(id).check # "clean" =>
                  id \in worktrees /\ id \in branches

\* A pass without --nuclear has ended having met a polecat that was dirty or
\* whose check failed, and a clean one that it removed.
C2_Witness ==
    /\ pc = "done"
    /\ ~flags.nuclear
    /\ \E k \in At("check") : trace[k].res \in {"dirty", "err"}
    /\ \E k \in At("remove") : trace[k].res
    /\ \E k \in At("deleteBranch") : trace[k].res

\* C3 as stated: at the end of a pass every polecat found clean has been
\* removed and reported as cleaned.
C3_CleanAlwaysRemoved ==
    pc = "done" =>
        \A k \in At("check") : trace[k].res = "clean" =>
            /\ trace[k].arg \notin worktrees
            /\ \E j \in At("print") :
                  trace[j].arg = trace[k].arg /\ trace[j].res = "cleaned up"

\* The number of turns of the polecat loop that ended in "skipped".
SkipCount ==
    Cardinality({k \in At("remove") : ~trace[k].res})
    + Cardinality({k \in At("check") :
                      /\ trace[k].res # "clean"
                      /\ (k = Len(trace) \/ trace[k + 1].op \notin {"remove", "warn"})})

\* C3, amended: every listed polecat found clean has its removal attempted at
\* once; when the removal succeeds the worktree is gone and the polecat is
\* counted in the cleaned total; when it fails the worktree stays and the
\* polecat is counted as skipped.
C3_CleanRemovedWhenRemovalSucceeds ==
    /\ \A k \in At("check") : trace[k].res = "clean" =>
          /\ k < Len(trace)
          /\ trace[k + 1].op = "remove"
          /\ trace[k + 1].arg = trace[k].arg
          /\ IF trace[k + 1].res
             THEN trace[k].arg \notin worktrees
             ELSE trace[k].arg \in worktrees
    /\ pc \in {"rig", "polecat"} =>
          /\ totalCleaned = Cardinality({k \in At("remove") : trace[k].res})
          /\ totalSkipped = SkipCount

\* A pass has ended in which one clean polecat was removed and the removal
\* of another clean one failed.
C3_Witness ==
    /\ pc = "done"
    /\ \E k \in At("check") :
          trace[k].res = "clean" /\ trace[k + 1].op = "remove" /\ trace[k + 1].res
    /\ \E k \in At("check") :
          trace[k].res = "clean" /\ trace[k + 1].op = "remove" /\ ~trace[k + 1].res

\* The sessions of ss that satisfy Keep, in the order of ss.
Selected(ss, Keep(_)) == SelectSeq(ss, Keep)

IsFleet(sess) == AgentOf(sess).kind # "other"
IsCrewAgent(sess) == AgentOf(sess).kind = "crew"
IsPolecatAgent(sess) == AgentOf(sess).kind = "polecat"

\* C4: under the default policy categorizeSessions selects for stopping
\* exactly the fleet sessions that are not crew sessions and preserves exactly
\* the crew sessions; under --all (without --polecats-only, which the code
\* tests first) it selects every fleet session and preserves none.
C4_DefaultAndAllPolicies ==
    (pc # "categorize" /\ ~flags.polecatsOnly) =>
        IF flags.all
        THEN /\ toStop = Selected(sessions, IsFleet)
             /\ preserved = <<>>
        ELSE /\ toStop = Selected(sessions,
                              LAMBDA sess : IsFleet(sess) /\ ~IsCrewAgent(sess))
             /\ preserved = Selected(sessions,
                              LAMBDA sess : IsFleet(sess) /\ IsCrewAgent(sess))

\* The default policy has categorized a crew session, a polecat session and
\* a session of another tool.
C4_Witness ==
    /\ pc # "categorize"
    /\ ~flags.polecatsOnly /\ ~flags.all
    /\ \E sess \in Range(sessions) : IsCrewAgent(sess)
    /\ \E sess \in Range(sessions) : IsPolecatAgent(sess)
    /\ \E sess \in Range(sessions) : ~IsFleet(sess)
    /\ Len(preserved) = 1 /\ Len(toStop) = 1

\* C5 as stated: under --polecats-only the sessions selected for stopping are
\* exactly the polecat sessions, whatever the rig and the polecat are called;
\* no Mayor, Deacon, crew, witness or refinery session is stopped.
C5_PolecatsOnlyStopsPolecats ==
    (pc # "categorize" /\ flags.polecatsOnly) =>
        toStop = Selected(sessions, IsPolecatAgent)

\* The name begins with the text "gt-".
CarriesFleetPrefix(sess) == Len(sess) >= 2 /\ sess[1] = "gt"

\* C6: a session whose name does not begin with gt- is, under every
\* combination of flags, neither listed as to-stop nor as preserved, and is
\* never sent an interrupt or a shutdown notice, nor killed.
C6_ForeignSessionsUntouched ==
    /\ \A sess \in Range(toStop) \cup Range(preserved) : CarriesFleetPrefix(sess)
    /\ \A k \in At("interrupt") \cup At("notice") \cup At("kill") :
          CarriesFleetPrefix(trace[k].arg)
    /\ \A k \in At("show") :
          \A sess \in Range(trace[k].res) : CarriesFleetPrefix(sess)

\* A graceful shutdown that found the session "main" among the live ones
\* has interrupted and killed others and ended with "main" still alive.
C6_Witness ==
    /\ pc = "done"
    /\ <<"main">> \in Range(sessions)
    /\ <<"main">> \in live
    /\ flags.graceful
    /\ At("interrupt") # {}
    /\ \E k \in At("kill") : trace[k].res

\* What one step of runStart does, seen from the state it starts in.
C7_StartStep ==
    pc \in {"startMayor", "startDeacon"} =>
        LET new == SubSeq(trace', Len(trace) + 1, Len(trace'))
            starts == {k \in 1..Len(new) : new[k].op = "start"}
            both == {MayorSessionName, DeaconSessionName}
        IN  /\ \A k \in starts :
                  /\ new[k].arg \notin live
                  /\ new[k].arg =
                        (IF pc = "startMayor" THEN MayorSessionName
                         ELSE DeaconSessionName)
                  /\ new[k].arg = DeaconSessionName => MayorSessionName \in live
            /\ both \subseteq live => (live' = live /\ starts = {})
            /\ (pc = "startDeacon" /\ pc' = "done"
                   /\ \A k \in starts : new[k].res) => both \subseteq live'

\* C7: runStart starts the Mayor or the Deacon only when it has no live
\* session, the Mayor first, so that the Mayor's session is live whenever the
\* Deacon's start is called; a runStart that ends well leaves both alive, and
\* one that finds both alive starts nothing and leaves the sessions as they are.
C7_StartIdempotentOrdered == [][C7_StartStep]_vars

\* A runStart has ended that found both sessions alive and started nothing.
C7_Witness ==
    /\ pc = "done"
    /\ Len(trace) = 2
    /\ trace[1].op = "running" /\ trace[1].arg = MayorSessionName
    /\ trace[2].op = "running" /\ trace[2].arg = DeaconSessionName
    /\ {MayorSessionName, DeaconSessionName} \subseteq live

\* The seconds slept in the first k calls of the trace.
RECURSIVE Slept(_)
Slept(k) ==
    IF k = 0 THEN 0
    ELSE Slept(k - 1) + (IF trace[k].op = "sleep" THEN trace[k].arg ELSE 0)

ReclamationAt ==
    {k \in 1..Len(trace) :
        trace[k].op \in {"check", "remove", "deleteBranch", "list", "totals"}}

\* Every call of kind op made so far precedes every call at a position of
\* later, and once there is one of these every selected session has had its
\* call of kind op.
DoneBefore(op, later) ==
    LET calls == At(op)
        after == later
    IN  /\ \A i \in calls : \A j \in after : i < j
        /\ after # {} => \A sess \in Range(toStop) :
                             \E i \in calls : trace[i].arg = sess

\* C8: in a graceful shutdown every selected session is sent the interrupt
\* before any is sent the notice, every selected session is sent the notice
\* before the wait begins, no session is killed before the whole wait has
\* been slept, and the reclamation pass starts only after a kill has been
\* tried on every selected session.
C8_GracefulPhasesInOrder ==
    flags.graceful =>
        LET kills == At("kill")
        IN  /\ DoneBefore("interrupt", At("notice"))
            /\ DoneBefore("notice",
                          {k \in 1..Len(trace) : trace[k].op \in {"sleep", "kill"}})
            /\ \A w \in At("sleep") : \A k \in kills : w < k
            /\ kills # {} =>
                  Slept(Len(trace)) = (IF flags.wait > 0 THEN flags.wait ELSE 0)
            /\ DoneBefore("kill", ReclamationAt)
            /\ pc \in {"cleanup", "rig", "polecat"} =>
                  \A sess \in Range(toStop) : \E k \in kills : trace[k].arg = sess

\* A graceful shutdown of three sessions or more with the longest wait has
\* run all five phases and removed a worktree in the last.
C8_Witness ==
    /\ pc = "done"
    /\ flags.graceful
    /\ flags.wait = MaxWait
    /\ Len(toStop) >= 3
    /\ Cardinality(At("sleep")) >= 2
    /\ \E k \in At("remove") : trace[k].res

\* The calls that stop a session or reclaim a working copy.
EffectsAt ==
    At("interrupt") \cup At("notice") \cup At("kill") \cup At("remove")
    \cup At("deleteBranch")

\* The text is word in any mix of upper and lower case.
IsWord(text, word) ==
    /\ Len(text) = Len(word)
    /\ \A k \in 1..Len(word) :
          \/ text[k] = word[k]
          \/ <<word[k], text[k]>> \in {<<"y", "Y">>, <<"e", "E">>, <<"s", "S">>}

\* The line is y or yes in any case between whitespace.
SaysYes(line) ==
    \E a \in 1..(Len(line) + 1), b \in 0..Len(line) :
        /\ \A k \in 1..(a - 1) : line[k] \in {" ", "\t", "\n", "\r"}
        /\ \A k \in (b + 1)..Len(line) : line[k] \in {" ", "\t", "\n", "\r"}
        /\ \/ IsWord(SubSeq(line, a, b), <<"y">>)
           \/ IsWord(SubSeq(line, a, b), <<"y", "e", "s">>)

C9_Step ==
    /\ pc \in {"categorize", "prompt", "decide"} => UNCHANGED envVars
    /\ pc = "decide" =>
          IF SaysYes(response)
          THEN pc' = Proceed /\ At("confirm")' # {}
          ELSE pc' = "done" /\ EffectsAt' = {}

\* C9: without --yes no session is interrupted, messaged or killed and no
\* working copy reclaimed unless the line read at the prompt is y or yes, in
\* any case, between whitespace; any other line, the empty one too, ends the
\* command with sessions, worktrees and branches as they were.
C9_ConfirmBeforeStopping ==
    /\ [](EffectsAt # {} => (flags.yes \/ At("confirm") # {}))
    /\ [][C9_Step]_vars

\* A shutdown without --yes was confirmed at the prompt, killed a session
\* and removed a worktree.
C9_Witness ==
    /\ pc = "done"
    /\ ~flags.yes
    /\ At("confirm") # {}
    /\ \E k \in At("kill") : trace[k].res
    /\ \E k \in At("remove") : trace[k].res

\* The turns of the polecat loop that ended in "skipped": the position of the
\* check for one passed over, of the remove for one whose removal failed.
SkippedAt ==
    {k \in At("remove") : ~trace[k].res}
    \cup {k \in At("check") :
             /\ trace[k].res # "clean"
             /\ (k = Len(trace) \/ trace[k + 1].op \notin {"remove", "warn"})}

\* The Summary part of cleanupPolecats has printed.
SummaryPrinted ==
    \/ At("totals") # {}
    \/ \E k \in At("say") : trace[k].arg = "none"

\* C10 as stated: every polecat counted as skipped, for uncommitted changes,
\* a failed check or a failed removal, is in the list printed at the end.
C10_AllSkippedInFinalList ==
    SummaryPrinted =>
        \A k \in SkippedAt :
            \E l \in At("list") : \E e \in Range(trace[l].res) :
                e[1] = trace[k].arg[1] /\ e[3] = trace[k].arg[2]

\* The polecats passed over for uncommitted changes, in the order met.
UncommittedSkips ==
    SelectSeq(trace, LAMBDA e : e.op = "check" /\ e.res = "dirty" /\ ~flags.nuclear)

\* C10, amended: the list printed at the end holds, in the order met, one
\* entry "<rig>/<name> (<change summary>)" for each polecat passed over for
\* uncommitted changes and nothing else, and is left out when there is none;
\* a polecat skipped for a failed check or a failed removal is counted in
\* the skipped total and reported on a line of its own when it is skipped.
C10_FinalListIsUncommittedOnly ==
    /\ SummaryPrinted =>
          /\ Cardinality(At("list")) = (IF Len(UncommittedSkips) = 0 THEN 0 ELSE 1)
          /\ \A l \in At("list") :
                /\ Len(trace[l].res) = Len(UncommittedSkips)
                /\ \A k \in 1..Len(UncommittedSkips) :
                      LET id == UncommittedSkips[k].arg
                      IN  trace[l].res[k] =
                            <<id[1], "/", id[2], " (", PolecatRec(id).summary, ")">>
          /\ \A t \in At("totals") : trace[t].res = Cardinality(SkippedAt)
    /\ \A k \in SkippedAt :
          (trace[k].op = "check" => trace[k].res # "dirty") =>
              /\ k < Len(trace)
              /\ trace[k + 1].op = "print"
              /\ trace[k + 1].arg = trace[k].arg
              /\ trace[k + 1].res =
                    (IF trace[k].op = "remove" THEN "cleanup failed"
                     ELSE "could not check status, skipping")

\* A pass has ended that listed a polecat with uncommitted changes and also
\* skipped one whose check or whose removal failed.
C10_Witness ==
    /\ pc = "done"
    /\ \E l \in At("list") : Len(trace[l].res) = 1
    /\ \E k \in SkippedAt :
          \/ trace[k].op = "check" /\ trace[k].res = "err"
          \/ trace[k].op = "remove"

\* The polecats of the rigs whose listing succeeds, as <<rig, name>>.
ListedPolecats ==
    UNION {{<<rigs[i].name, rigs[i].polecats[j].name>> :
               j \in 1..Len(rigs[i].polecats)} :
           i \in {n \in 1..Len(rigs) : rigs[n].listOk}}

\* C11: with --nuclear the removal of every polecat is attempted straight
\* after its check whatever the check said, clean, uncommitted or failed, and
\* for each polecat found with uncommitted changes a warning naming it and
\* its change summary is printed between the check and the removal; at the
\* end every listed polecat has had its removal attempted.
C11_NuclearRemovesAll ==
    flags.nuclear =>
        /\ \A k \in At("check") :
              LET r == IF trace[k].res = "dirty" THEN k + 2 ELSE k + 1
              IN  /\ r <= Len(trace)
                  /\ trace[r].op = "remove"
                  /\ trace[r].arg = trace[k].arg
                  /\ trace[k].res = "dirty" =>
                        /\ trace[k + 1].op = "warn"
                        /\ trace[k + 1].arg = trace[k].arg
                        /\ trace[k + 1].res = PolecatRec(trace[k].arg).summary
        /\ SummaryPrinted =>
              \A id \in ListedPolecats :
                  \E k \in At("remove") : trace[k].arg = id

\* A pass with --nuclear has ended that removed a polecat with uncommitted
\* changes after warning, and tried the removal of one whose check failed.
C11_Witness ==
    /\ pc = "done"
    /\ flags.nuclear
    /\ \E k \in At("warn") : trace[k + 1].op = "remove" /\ trace[k + 1].res
    /\ \E k \in At("check") : trace[k].res = "err" /\ trace[k + 1].op = "remove"

\* The bead is hooked to the worker.
HookedTo(bead, worker) ==
    beads[bead] = [status |-> "hooked", assignee |-> worker]

\* C12: in a call of gt sling the claim comes after the target is resolved
\* and any polecat provisioned, and before the worker is told: a worker is
\* told of a bead only if the bead was claimed for it earlier in the call and
\* is hooked to it, and once claimed the bead stays hooked to the worker
\* whether the worker has no session, the nudge fails or it goes through.
C12_ClaimBeforeNotify ==
    /\ \A c \in At("claim") :
          /\ trace[c].res = result.Target /\ result.Target # ""
          /\ \A p \in At("provision") : p < c
          /\ HookedTo(trace[c].arg, trace[c].res)
    /\ \A n \in At("nudge") :
          /\ \E c \in At("claim") :
                c < n /\ trace[c].arg = trace[n].arg /\ trace[c].res = trace[n].res
          /\ HookedTo(trace[n].arg, trace[n].res)
    /\ (pc \in {"nudge", "emit"} /\ ~sling.dryRun) => At("claim") # {}

\* A call has provisioned a polecat, claimed the bead for it, and failed to
\* tell it; the bead is hooked to the polecat.
C12_Witness ==
    /\ pc = "done"
    /\ At("provision") # {}
    /\ \E n \in At("nudge") : HookedTo(trace[n].arg, trace[n].res)
    /\ ~result.NudgeSent
    /\ "nudge_sent" \in DOMAIN json
\* The call is on a pinned bead without --force.
PinnedUnforced ==
    /\ pc \in {"sling", "resolve", "fetch", "convoy", "formula", "claim",
               "nudge", "emit"}
    /\ beads[sling.bead].status = "pinned"
    /\ ~sling.force

\* C13 as stated: gt sling of a pinned bead without --force ends in a fatal
\* error and no step of it changes the beads, the convoys, the polecats on
\* disk or the live sessions.
C13_PinnedNoMutation ==
    /\ [](PinnedUnforced => pc \in {"sling", "resolve", "fetch"})
    /\ []((pc = "done" /\ beads[sling.bead].status = "pinned" /\ ~sling.force)
             => At("fatal") # {})
    /\ [][PinnedUnforced =>
             /\ beads' = beads
             /\ tracked' = tracked
             /\ worktrees' = worktrees
             /\ branches' = branches
             /\ live' = live]_vars

\* The optional string fields of slingResult, each with the key it is
\* printed under.
OptionalKeys ==
    {<<"Formula", "formula">>, <<"WispID", "wisp_id">>,
     <<"ConvoyID", "convoy_id">>, <<"OriginalBeadID", "original_bead_id">>,
     <<"PolecatName", "polecat_name">>}

\* C14: the printed form of every result record holds action, one of slung,
\* spawned and dry_run, bead_id, target and nudge_sent, the last also when it
\* is false, each with the value of the record, and holds formula, wisp_id,
\* convoy_id, original_bead_id and polecat_name exactly when the field is
\* not empty.
C14_ResultRecordKeys ==
    pc = "done" =>
        /\ {"action", "bead_id", "target", "nudge_sent"} \subseteq DOMAIN json
        /\ json["action"] = result.Action
        /\ json["action"] \in {"slung", "spawned", "dry_run"}
        /\ json["bead_id"] = result.BeadID
        /\ json["target"] = result.Target
        /\ json["nudge_sent"] = result.NudgeSent
        /\ \A fk \in OptionalKeys :
              /\ fk[2] \in DOMAIN json <=> result[fk[1]] # ""
              /\ fk[2] \in DOMAIN json => json[fk[2]] = result[fk[1]]

\* The "dry run action" record of TestSlingResult_JSON has been printed:
\* nudge_sent is there and false, no optional key is.
C14_Witness ==
    /\ pc = "done"
    /\ result = [ZeroResult EXCEPT !.Action = slingActionDryRun,
                                   !.BeadID = "gt-abc123",
                                   !.Target = "gastown/crew/joe"]
    /\ DOMAIN json = {"action", "bead_id", "target", "nudge_sent"}
    /\ json["nudge_sent"] = FALSE

\* C15 as stated: once the operator has pressed Ctrl-C during the countdown
\* the command sleeps no more and, when it ends, has tried the kill of every
\* selected session, in order, and has run the reclamation pass if there is
\* a town root.
C15_CtrlCForcesShutdown ==
    \A s \in At("sigint") :
        /\ \A w \in At("sleep") : w < s
        /\ pc = "done" =>
              /\ \A sess \in Range(toStop) :
                    \E k \in At("kill") : s < k /\ trace[k].arg = sess
              /\ townRoot => \E c \in At("say") \cup At("totals") : s < c

\* The seconds of --wait that are to be slept.
WaitDue == IF flags.wait > 0 THEN flags.wait ELSE 0

\* What the countdown has done so far is within --wait.
C16_CountdownSafe ==
    flags.graceful =>
        /\ \A w \in At("sleep") :
              /\ trace[w].arg \in 1..5
              /\ (\E v \in At("sleep") : w < v) => trace[w].arg = 5
        /\ Slept(Len(trace)) <= WaitDue
        /\ Cardinality(At("sleep")) <= (WaitDue + 4) \div 5
        /\ pc \notin {"phase1", "phase2", "phase3"} => Slept(Len(trace)) = WaitDue

\* C16: for every --wait W the countdown sleeps in turns of five seconds and
\* a last one of the remainder, never more than W in all, W exactly when
\* W > 0 and nothing when W <= 0, and it comes to an end: phase 4 follows.
C16_CountdownTerminates ==
    /\ []C16_CountdownSafe
    /\ (pc = "phase3") ~> (pc = "killDeacon")

\* A countdown of 12 seconds has slept 5, 5 and 2 and the shutdown has ended.
C16_Witness ==
    /\ pc = "done"
    /\ flags.wait = 12
    /\ \E w \in At("sleep") :
          /\ trace[w].arg = 5 /\ trace[w + 1].arg = 5 /\ trace[w + 2].arg = 2
          /\ trace[w + 1].op = "sleep" /\ trace[w + 2].op = "sleep"
    /\ At("kill") # {}

\* C17: on a list without duplicates killSessionsInOrder calls KillSession
\* once for each session of the list and for no other, whichever of the calls
\* fail, and the count it returns, which the closing line prints, is the
\* number of calls that succeeded.
C17_KillCountsSuccesses ==
    LET kills == At("kill")
        killed == Cardinality({k \in kills : trace[k].res})
    IN  /\ \A a, b \in kills : trace[a].arg = trace[b].arg => a = b
        /\ \A k \in kills : trace[k].arg \in Range(toStop)
        /\ stopped = killed
        /\ KillsDone => Cardinality(kills) = Len(toStop)
        /\ \A c \in At("complete") : trace[c].arg = killed

\* A shutdown of three sessions or more has ended whose first kill failed
\* and whose later kills succeeded, the count being one less than the list.
C17_Witness ==
    /\ pc = "done"
    /\ Len(toStop) >= 3
    /\ \E k \in At("kill") :
          /\ ~trace[k].res
          /\ \A j \in At("kill") : (j # k) => (k < j /\ trace[j].res)
    /\ stopped = Len(toStop) - 1

\* The step of runShutdown that finds no session selected.
C18_Step ==
    (pc = "categorize" /\ toStop' = <<>>) =>
        /\ pc' = "done"
        /\ trace' = trace \o <<Ev("say", "none", "Gas Town was not running")>>
        /\ UNCHANGED envVars

\* C18: when categorizeSessions selects no session, runShutdown says that
\* Gas Town was not running and returns: it shows no list, asks nothing,
\* sends no interrupt or notice, kills nothing and runs no reclamation pass,
\* and sessions, worktrees and branches are as they were.
C18_NothingSelectedNothingDone ==
    /\ []((toStop = <<>> /\ pc \notin {"idle", "categorize"}) =>
             /\ EffectsAt \cup ReclamationAt \cup At("show") \cup At("confirm") = {}
             /\ \A k \in At("say") : trace[k].arg # "prompt"
             /\ pc \in {"startMayor", "startDeacon", "done"})
    /\ [][C18_Step]_vars

\* gt shutdown --polecats-only --yes has returned saying Gas Town was not
\* running, with sessions alive, none of them a polecat's, and the polecat
\* worktree still on disk.
C18_Witness ==
    /\ pc = "done"
    /\ flags.polecatsOnly /\ flags.yes
    /\ sessions # <<>>
    /\ MayorSessionName \in live
    /\ \E k \in At("say") : trace[k].res = "Gas Town was not running"
    /\ worktrees # {}

\* C19: in a reclamation pass every polecat listed for a discovered rig is
\* examined once and counted once: cleaned plus skipped is the number
\* examined, cleaned is the number of worktrees removed, the list of
\* uncommitted polecats is no longer than the skipped total, and the totals
\* printed are these.
C19_EachPolecatCountedOnce ==
    /\ totalCleaned + totalSkipped = Cardinality(At("check"))
    /\ \A a, b \in At("check") : trace[a].arg = trace[b].arg => a = b
    /\ totalCleaned = Cardinality({k \in At("remove") : trace[k].res})
    /\ totalCleaned = Cardinality(AllPolecats(rigs) \ worktrees)
    /\ Len(uncommittedPolecats) <= totalSkipped
    /\ SummaryPrinted =>
          /\ {trace[k].arg : k \in At("check")} = ListedPolecats
          /\ \A t \in At("totals") :
                trace[t].arg = totalCleaned /\ trace[t].res = totalSkipped

\* A pass over two rigs has ended with one polecat cleaned and one skipped
\* for a reason other than uncommitted changes.
C19_Witness ==
    /\ pc = "done"
    /\ Len(rigs) >= 2
    /\ totalCleaned = 1
    /\ totalSkipped = 1
    /\ Len(uncommittedPolecats) = 0
    /\ At("totals") # {}

\* C20: the branch of a polecat is deleted only straight after its worktree
\* was removed in the same pass; a polecat skipped for uncommitted changes,
\* a failed check or a failed removal keeps its branch and no deletion is
\* tried on it; and a deletion that fails changes nothing else: the polecat
\* is reported and counted as cleaned.
C20_BranchDeletedAfterRemoval ==
    /\ \A d \in At("deleteBranch") :
          /\ trace[d - 1].op = "remove"
          /\ trace[d - 1].arg = trace[d].arg
          /\ trace[d - 1].res
          /\ trace[d].arg \notin worktrees
          /\ d < Len(trace)
          /\ trace[d + 1].op = "print"
          /\ trace[d + 1].arg = trace[d].arg
          /\ trace[d + 1].res = "cleaned up"
    /\ \A k \in SkippedAt :
          /\ trace[k].arg \in branches
          /\ \A d \in At("deleteBranch") : trace[d].arg # trace[k].arg
    /\ totalCleaned = Cardinality(At("deleteBranch"))
    /\ branches = AllPolecats(rigs)
                  \ {trace[d].arg : d \in {e \in At("deleteBranch") : trace[e].res}}

\* A pass has ended in which the branch deletion of a removed polecat failed,
\* the polecat being counted as cleaned, and another polecat was skipped.
C20_Witness ==
    /\ pc = "done"
    /\ \E d \in At("deleteBranch") :
          ~trace[d].res /\ trace[d].arg \in branches
    /\ totalCleaned = 1
    /\ SkippedAt # {}

=============================================================================
